---- MODULE Spec2Model ----
(***************************************************************************)
(* docker-enforce: the command policy evaluator of scripts/enforce.ts.     *)
(*                                                                         *)
(* One run of the CLI is modelled: the process starts with an argument     *)
(* list, a project config file and a container runtime in some state,      *)
(* main() dispatches on the first argument and the process exits.          *)
(*                                                                         *)
(* Text that the program takes apart or puts together (commands, container *)
(* names, the runtime's output) is a sequence of one-character strings, so *)
(* that join, split, startsWith and the regular expressions are computed   *)
(* as the code computes them.  Fixed texts (actions, messages, modes, tool *)
(* names) are plain strings.  An optional value (JavaScript undefined) is  *)
(* a sequence of length 0 or 1.  ANSI colour codes are left out of the     *)
(* printed lines.                                                          *)
(***************************************************************************)
EXTENDS Integers, Sequences, FiniteSets, TLC

VARIABLES argv, file, docker, pc, stdout, stderr, exitCode, results, calls

vars == <<argv, file, docker, pc, stdout, stderr, exitCode, results, calls>>

(***************************************************************************)
(* Bounds of the model.                                                    *)
(***************************************************************************)
MaxAllowed == 2   \* longest allowedHostCommands list in a config file
MaxRunning == 1   \* most containers the runtime lists as running

(***************************************************************************)
(* Text.                                                                   *)
(***************************************************************************)
SP == <<" ">>
TAB == <<"\t">>
NL == <<"\n">>

W_npm == <<"n","p","m">>
W_npx == <<"n","p","x">>
W_yarn == <<"y","a","r","n">>
W_pnpm == <<"p","n","p","m">>
W_node == <<"n","o","d","e">>
W_tsx == <<"t","s","x">>
W_bun == <<"b","u","n">>
W_git == <<"g","i","t">>
W_install == <<"i","n","s","t","a","l","l">>
W_ci == <<"c","i">>
W_run == <<"r","u","n">>
W_test == <<"t","e","s","t">>
W_exec == <<"e","x","e","c">>
W_start == <<"s","t","a","r","t">>
W_build == <<"b","u","i","l","d">>
W_add == <<"a","d","d">>
W_status == <<"s","t","a","t","u","s">>
W_lint == <<"l","i","n","t">>
W_view == <<"v","i","e","w">>
W_fix == <<"-","-","f","i","x">>
W_app == <<"a","p","p">>
W_myapp == <<"m","y","a","p","p">>
W_js == <<"a",".","j","s">>
W_check == <<"c","h","e","c","k">>
W_validate == <<"v","a","l","i","d","a","t","e">>
W_transform == <<"t","r","a","n","s","f","o","r","m">>
W_enforce == <<"e","n","f","o","r","c","e">>
W_docker == <<"d","o","c","k","e","r">>
W_lintfix == <<"l","i","n","t",":","f","i","x">>
W_lintx == <<"l","i","n","t","x">>

\* s.slice(n)
Drop(s, n) == SubSeq(s, n + 1, Len(s))

\* s.startsWith(p)
StartsWith(s, p) == Len(p) <= Len(s) /\ SubSeq(s, 1, Len(p)) = p

\* words.join(sep)
RECURSIVE Join(_, _)
Join(words, sep) ==
    IF Len(words) = 0 THEN <<>>
    ELSE IF Len(words) = 1 THEN words[1]
    ELSE words[1] \o sep \o Join(Tail(words), sep)

\* s.split(c) for a one-character separator c
RECURSIVE Split(_, _)
Split(s, c) ==
    IF \A i \in 1..Len(s) : s[i] # c THEN <<s>>
    ELSE LET k == CHOOSE i \in 1..Len(s) : s[i] = c /\ \A j \in 1..(i - 1) : s[j] # c
         IN  <<SubSeq(s, 1, k - 1)>> \o Split(Drop(s, k), c)

\* list.includes(x)
Includes(list, x) == \E i \in 1..Len(list) : list[i] = x

\* the characters the regular expression class \s matches
Whitespace == {" ", "\t", "\n"}

\* length of the longest run of whitespace that starts s: what \s+ consumes
\* before a part of the pattern that begins with a letter
RECURSIVE LeadingWhitespace(_)
LeadingWhitespace(s) ==
    IF Len(s) > 0 /\ s[1] \in Whitespace THEN 1 + LeadingWhitespace(Tail(s)) ELSE 0

(***************************************************************************)
(* Configuration.                                                          *)
(***************************************************************************)
\* one [tool, enabled] pair of Object.entries(interceptPatterns)
Entry(tool, enabled) == [tool |-> tool, enabled |-> enabled]

DEFAULT_CONFIG ==
    [ containerName       |-> <<>>,
      enforcement         |-> <<"block">>,
      allowedHostCommands |-> << <<>> >>,
      interceptPatterns   |-> << << Entry("npm", TRUE), Entry("npx", TRUE),
                                    Entry("yarn", TRUE), Entry("pnpm", TRUE),
                                    Entry("node", TRUE), Entry("tsx", TRUE),
                                    Entry("bun", TRUE) >> >> ]

\* a regular expression /^word\s+(alt|alt|...)/ ; no alternatives: /^word\s+/
INTERCEPT_PATTERNS ==
    [ npm  |-> [word |-> W_npm,
                alts |-> {W_install, W_ci, W_run, W_test, W_exec, W_start, W_build}],
      npx  |-> [word |-> W_npx, alts |-> {}],
      yarn |-> [word |-> W_yarn,
                alts |-> {W_add, W_install, W_run, W_start, W_build}],
      pnpm |-> [word |-> W_pnpm,
                alts |-> {W_add, W_install, W_run, W_start, W_build}],
      node |-> [word |-> W_node, alts |-> {}],
      tsx  |-> [word |-> W_tsx, alts |-> {}],
      bun  |-> [word |-> W_bun, alts |-> {W_run, W_install, W_add}] ]

\* pattern.test(s): anchored at the start, nothing required after the match
RegexTest(p, s) ==
    /\ StartsWith(s, p.word)
    /\ LET rest == Drop(s, Len(p.word))
           n    == LeadingWhitespace(rest)
       IN  /\ n >= 1
           /\ \/ p.alts = {}
              \/ \E a \in p.alts : StartsWith(Drop(rest, n), a)

\* a deep merge: interceptPatterns merged tool by tool, so that a tool the
\* file leaves out keeps its default
Merge_DeepPatterns(base, over) ==
    [ containerName       |-> IF Len(over.containerName) > 0
                              THEN over.containerName ELSE base.containerName,
      enforcement         |-> IF Len(over.enforcement) > 0
                              THEN over.enforcement ELSE base.enforcement,
      allowedHostCommands |-> IF Len(over.allowedHostCommands) > 0
                              THEN over.allowedHostCommands
                              ELSE base.allowedHostCommands,
      interceptPatterns   |->
          IF Len(over.interceptPatterns) > 0 /\ Len(base.interceptPatterns) > 0
          THEN LET b == base.interceptPatterns[1]
                   o == over.interceptPatterns[1]
                   Kept(e) == \A j \in 1..Len(o) : o[j].tool # e.tool
               IN  << SelectSeq(b, Kept) \o o >>
          ELSE IF Len(over.interceptPatterns) > 0
          THEN over.interceptPatterns
          ELSE base.interceptPatterns ]

\* the spread written the other way round: { ...over, ...base }
Merge_DefaultsWin(base, over) ==
    [ containerName       |-> IF Len(base.containerName) > 0
                              THEN base.containerName ELSE over.containerName,
      enforcement         |-> IF Len(base.enforcement) > 0
                              THEN base.enforcement ELSE over.enforcement,
      allowedHostCommands |-> IF Len(base.allowedHostCommands) > 0
                              THEN base.allowedHostCommands
                              ELSE over.allowedHostCommands,
      interceptPatterns   |-> IF Len(base.interceptPatterns) > 0
                              THEN base.interceptPatterns
                              ELSE over.interceptPatterns ]

\* { ...base, ...over }: a field of over that is present replaces base's
Merge(base, over) ==
    [ containerName       |-> IF Len(over.containerName) > 0
                              THEN over.containerName ELSE base.containerName,
      enforcement         |-> IF Len(over.enforcement) > 0
                              THEN over.enforcement ELSE base.enforcement,
      allowedHostCommands |-> IF Len(over.allowedHostCommands) > 0
                              THEN over.allowedHostCommands
                              ELSE base.allowedHostCommands,
      interceptPatterns   |-> IF Len(over.interceptPatterns) > 0
                              THEN over.interceptPatterns
                              ELSE base.interceptPatterns ]

\* one console.error / console.log line: a fixed text and the values put in it
Line(text, args) == [text |-> text, args |-> args]

ParseWarning == Line("Warning: Could not parse ${configPath}", <<>>)

\* the catch block without its console.error
loadConfig_SilentFallback(f) ==
    IF f.kind = "ok"
    THEN [config |-> Merge(DEFAULT_CONFIG, f.json), stderr |-> <<>>]
    ELSE [config |-> DEFAULT_CONFIG, stderr |-> <<>>]

\* f is the config file: kind "missing", "malformed" (unreadable or not JSON)
\* or "ok" with the parsed object in f.json
loadConfig(f) ==
    IF f.kind = "missing" THEN [config |-> DEFAULT_CONFIG, stderr |-> <<>>]
    ELSE IF f.kind = "ok"
    THEN [config |-> Merge(DEFAULT_CONFIG, f.json), stderr |-> <<>>]
    ELSE [config |-> DEFAULT_CONFIG, stderr |-> <<ParseWarning>>]

shouldIntercept(command, config) ==
    LET patterns == IF Len(config.interceptPatterns) > 0
                    THEN config.interceptPatterns[1]
                    ELSE DEFAULT_CONFIG.interceptPatterns[1]
    IN  \E i \in 1..Len(patterns) :
            /\ patterns[i].enabled
            /\ patterns[i].tool \in DOMAIN INTERCEPT_PATTERNS
            /\ RegexTest(INTERCEPT_PATTERNS[patterns[i].tool], command)

\* command.startsWith(allowedCmd), without the space
isAllowed_BarePrefix(command, config) ==
    LET allowed == IF Len(config.allowedHostCommands) > 0
                   THEN config.allowedHostCommands[1] ELSE <<>>
    IN  \E i \in 1..Len(allowed) :
            \/ command = allowed[i]
            \/ StartsWith(command, allowed[i])

\* the startsWith test left out
isAllowed_ExactOnly(command, config) ==
    LET allowed == IF Len(config.allowedHostCommands) > 0
                   THEN config.allowedHostCommands[1] ELSE <<>>
    IN  \E i \in 1..Len(allowed) : command = allowed[i]

isAllowed(command, config) ==
    LET allowed == IF Len(config.allowedHostCommands) > 0
                   THEN config.allowedHostCommands[1] ELSE <<>>
    IN  \E i \in 1..Len(allowed) :
            \/ command = allowed[i]
            \/ StartsWith(command, allowed[i] \o SP)

\* what `docker ps --format '{{.Names}}'` prints: one name per line
RECURSIVE PsOutput(_)
PsOutput(names) ==
    IF Len(names) = 0 THEN <<>> ELSE names[1] \o NL \o PsOutput(Tail(names))

\* s.includes(sub) on text
Contains(s, sub) ==
    \E k \in 0..(Len(s) - Len(sub)) : SubSeq(s, k + 1, k + Len(sub)) = sub

\* output.includes(containerName) without the split into lines
isContainerRunning_Substring(containerName, d) ==
    IF d.ok THEN Contains(PsOutput(d.names), containerName) ELSE FALSE

\* d is the runtime: d.ok is FALSE when the call throws (no runtime, non-zero
\* exit), and d.names are the running containers
isContainerRunning(containerName, d) ==
    IF d.ok THEN Includes(Split(PsOutput(d.names), "\n"), containerName)
    ELSE FALSE

\* the container name left out of the rewritten command
DockerExec_DropsName(containerName, command) ==
    W_docker \o SP \o W_exec \o SP \o command

\* `docker exec ${containerName} ${command}`
DockerExec(containerName, command) ==
    W_docker \o SP \o W_exec \o SP \o containerName \o SP \o command

\* containerName === undefined
NoName_UndefinedOnly(containerName) == Len(containerName) = 0

\* !containerName : undefined or the empty string
NoName(containerName) == Len(containerName) = 0 \/ Len(containerName[1]) = 0

(***************************************************************************)
(* Messages.                                                               *)
(***************************************************************************)
showBlockMessage(command, containerName) ==
    << Line("ERROR: Docker-first policy violation detected!", <<>>),
       Line("", <<>>),
       Line("Command: ${command}", <<command>>),
       Line("Reason:  Package manager commands must run inside Docker", <<>>),
       Line("", <<>>) >>
    \o (IF NoName(containerName)
        THEN << Line("Configure containerName in .claude/docker-config.json first", <<>>) >>
        ELSE << Line("Suggested command:", <<>>),
                Line("  docker exec ${containerName} ${command}",
                     <<containerName[1], command>>) >>)
    \o << Line("", <<>>),
          Line("To allow this command on host, add to .claude/docker-config.json:", <<>>),
          Line("  \"allowedHostCommands\": [\"${command}\"]", <<command>>) >>

showWarning(command, containerName) ==
    << Line("WARNING: Running package manager on host instead of Docker", <<>>) >>
    \o (IF NoName(containerName) THEN <<>>
        ELSE << Line("Recommended: docker exec ${containerName} ${command}",
                     <<containerName[1], command>>) >>)
    \o << Line("Proceeding anyway...", <<>>) >>

(***************************************************************************)
(* enforce.  An evaluation yields the EnforceResult, the lines written to  *)
(* standard error and the functions called, in order.                      *)
(***************************************************************************)
Outcome(result, err, called) == [result |-> result, stderr |-> err, calls |-> called]

Allow == [action |-> "allow"]

\* the violation message shown, the action of the warn case returned
BlockCase_Warns(command, containerName) ==
    Outcome([action |-> "warn"],
            showBlockMessage(command, containerName), <<"showBlockMessage">>)

\* case 'block'
BlockCase(command, containerName) ==
    Outcome([action |-> "block", message |-> "Docker-first policy violation"],
            showBlockMessage(command, containerName), <<"showBlockMessage">>)

\* case 'warn'
WarnCase(command, containerName) ==
    Outcome([action |-> "warn"], showWarning(command, containerName), <<"showWarning">>)

\* the status check hoisted above the test for a container name
TransformCase_QueriesFirst(command, containerName, d) ==
    LET name    == IF Len(containerName) > 0 THEN containerName[1] ELSE <<>>
        running == isContainerRunning(name, d)
    IN  IF NoName(containerName)
        THEN Outcome([action |-> "block", message |-> "No container configured"],
                     << Line("ERROR: Cannot transform - no containerName configured",
                             <<>>) >>,
                     <<"isContainerRunning">>)
        ELSE IF ~running
        THEN Outcome([action |-> "block", message |-> "Container not running"],
                     << Line("ERROR: Container '${containerName}' is not running",
                             <<name>>),
                        Line("Start it with: docker compose up -d", <<>>) >>,
                     <<"isContainerRunning">>)
        ELSE Outcome([action |-> "transform",
                      transformedCommand |-> DockerExec(name, command)],
                     << Line("Transforming to: ${transformedCommand}",
                             <<DockerExec(name, command)>>) >>,
                     <<"isContainerRunning">>)

\* case 'transform'
TransformCase(command, containerName, d) ==
    IF NoName(containerName)
    THEN Outcome([action |-> "block", message |-> "No container configured"],
                 << Line("ERROR: Cannot transform - no containerName configured", <<>>) >>,
                 <<>>)
    ELSE IF ~isContainerRunning(containerName[1], d)
    THEN Outcome([action |-> "block", message |-> "Container not running"],
                 << Line("ERROR: Container '${containerName}' is not running",
                         <<containerName[1]>>),
                    Line("Start it with: docker compose up -d", <<>>) >>,
                 <<"isContainerRunning">>)
    ELSE LET transformedCommand == DockerExec(containerName[1], command)
         IN  Outcome([action |-> "transform", transformedCommand |-> transformedCommand],
                     << Line("Transforming to: ${transformedCommand}",
                             <<transformedCommand>>) >>,
                     <<"isContainerRunning">>)

\* case 'warn' without its return: control falls into case 'transform'
ApplyPolicy_WarnFallsThrough(command, config, d) ==
    LET containerName == config.containerName
        t == TransformCase(command, containerName, d)
    IN  CASE config.enforcement = <<"block">>     -> BlockCase(command, containerName)
          [] config.enforcement = <<"warn">>      ->
                 Outcome(t.result, showWarning(command, containerName) \o t.stderr,
                         <<"showWarning">> \o t.calls)
          [] config.enforcement = <<"transform">> -> t
          [] OTHER                                -> Outcome(Allow, <<>>, <<>>)

\* switch (config.enforcement)
ApplyPolicy(command, config, d) ==
    LET containerName == config.containerName
    IN  CASE config.enforcement = <<"block">>     -> BlockCase(command, containerName)
          [] config.enforcement = <<"warn">>      -> WarnCase(command, containerName)
          [] config.enforcement = <<"transform">> -> TransformCase(command, containerName, d)
          [] OTHER                                -> Outcome(Allow, <<>>, <<>>)

\* the shouldIntercept test left out
Decide_NoInterceptCheck(command, config, d) ==
    IF config.enforcement = <<"disabled">> THEN Outcome(Allow, <<>>, <<>>)
    ELSE IF isAllowed(command, config)
    THEN Outcome(Allow, <<>>, <<"isAllowed">>)
    ELSE LET o == ApplyPolicy(command, config, d)
         IN  Outcome(o.result, o.stderr, <<"isAllowed">> \o o.calls)

\* the decision once the config is loaded
Decide(command, config, d) ==
    IF config.enforcement = <<"disabled">> THEN Outcome(Allow, <<>>, <<>>)
    ELSE IF ~shouldIntercept(command, config)
    THEN Outcome(Allow, <<>>, <<"shouldIntercept">>)
    ELSE IF isAllowed(command, config)
    THEN Outcome(Allow, <<>>, <<"shouldIntercept", "isAllowed">>)
    ELSE LET o == ApplyPolicy(command, config, d)
         IN  Outcome(o.result, o.stderr, <<"shouldIntercept", "isAllowed">> \o o.calls)

enforce(command, f, d) ==
    LET lc == loadConfig(f)
        o  == Decide(command, lc.config, d)
    IN  Outcome(o.result, lc.stderr \o o.stderr, <<"loadConfig">> \o o.calls)

(***************************************************************************)
(* The inputs of a run.                                                    *)
(***************************************************************************)
\* all sequences over S of length at most n
RECURSIVE SeqsUpTo(_, _)
SeqsUpTo(S, n) ==
    IF n = 0 THEN {<<>>}
    ELSE LET shorter == SeqsUpTo(S, n - 1)
         IN  shorter \cup {Append(q, x) : q \in shorter, x \in S}

Commands ==
    { W_npm \o SP \o W_run \o SP \o W_lint,
      W_npm \o SP \o W_run \o SP \o W_lint \o SP \o W_fix,
      W_npm \o SP \o W_run \o SP \o W_lintfix,
      W_npm \o SP \o W_run \o SP \o W_lintx,
      W_npm \o SP \o W_view,
      W_npm \o SP \o TAB \o W_ci,
      W_npx \o SP \o W_js,
      W_yarn \o SP \o W_add,
      W_pnpm \o SP \o W_install,
      W_node \o SP \o W_js,
      W_node,
      W_tsx \o SP \o W_js,
      W_bun \o SP \o W_run,
      W_bun \o SP \o W_test,
      W_git \o SP \o W_status,
      <<>> }

\* the commands also given word by word, without a sub-command
WordwiseCommands ==
    { W_npm \o SP \o W_run \o SP \o W_lint,
      W_npm \o SP \o W_run \o SP \o W_lint \o SP \o W_fix,
      W_npm \o SP \o TAB \o W_ci,
      W_node \o SP \o W_js,
      W_git \o SP \o W_status,
      <<>> }

SubCommands == {W_check, W_validate, W_transform, W_enforce}

\* argument lists: a sub-command with the command as one argument or with no
\* argument, and a command given without sub-command, word by word
Argvs ==
    {<<sub>> : sub \in SubCommands}
    \cup {<<sub, c>> : sub \in {W_check, W_enforce}, c \in Commands}
    \cup {<<W_transform, c>> : c \in {W_node \o SP \o W_js, W_git \o SP \o W_status, <<>>}}
    \cup {Split(c, " ") : c \in WordwiseCommands}
    \cup {<<>>}

Modes == {"block", "warn", "transform", "disabled", "strict"}

ContainerNames == {<<>>, W_app}

AllowEntries == {W_npm \o SP \o W_run \o SP \o W_lint, W_node}

PatternObjects ==
    { <<>>,
      << Entry("npm", TRUE) >>,
      << Entry("npm", FALSE) >>,
      << Entry("npm", FALSE), Entry("node", TRUE) >>,
      << Entry("deno", TRUE) >> }

\* an optional field: absent, or one of the values
Optional(S) == {<<>>} \cup {<<v>> : v \in S}

\* the objects a config file can hold
ConfigObjects ==
    [ containerName       : Optional(ContainerNames),
      enforcement         : Optional(Modes),
      allowedHostCommands : Optional(SeqsUpTo(AllowEntries, MaxAllowed)),
      interceptPatterns   : Optional(PatternObjects) ]

EmptyObject ==
    [ containerName |-> <<>>, enforcement |-> <<>>,
      allowedHostCommands |-> <<>>, interceptPatterns |-> <<>> ]

Files ==
    { [kind |-> "missing", json |-> EmptyObject],
      [kind |-> "malformed", json |-> EmptyObject] }
    \cup { [kind |-> "ok", json |-> j] : j \in ConfigObjects }

RunningNames == {W_app, W_myapp}

Runtimes ==
    { [ok |-> FALSE, names |-> <<>>] }
    \cup { [ok |-> TRUE, names |-> ns] : ns \in SeqsUpTo(RunningNames, MaxRunning) }

(***************************************************************************)
(* main.                                                                   *)
(***************************************************************************)
\* args[0], undefined for an empty argument list
Action(args) == IF Len(args) > 0 THEN <<args[1]>> ELSE <<>>

\* args.slice(1).join(' ')
Command(args) == Join(Drop(args, 1), SP)

\* [action, command].filter(Boolean).join(' ')
DefaultCmd(args) ==
    LET action  == Action(args)
        command == Command(args)
    IN  Join((IF Len(action) > 0 /\ Len(action[1]) > 0 THEN action ELSE <<>>)
             \o (IF Len(command) > 0 THEN <<command>> ELSE <<>>), SP)

\* const cmd = action === 'enforce' ? command : [action, command]...
EnforceCmd(args) ==
    IF Action(args) = <<W_enforce>> THEN Command(args) ELSE DefaultCmd(args)

\* if (result.action !== 'allow') process.exit(1)
ExitCodeFor_NonAllow(result) == IF result.action # "allow" THEN 1 ELSE 0

\* if (result.action === 'block') process.exit(1), else main ends with code 0
ExitCodeFor(result) == IF result.action = "block" THEN 1 ELSE 0

\* 'check' answering as enforce would under mode disabled
CheckVerdict_HonoursDisabled(command, config) ==
    /\ config.enforcement # <<"disabled">>
    /\ shouldIntercept(command, config)
    /\ ~isAllowed(command, config)

\* shouldIntercept(command, config) && !isAllowed(command, config) of 'check'
CheckVerdict(command, config) ==
    shouldIntercept(command, config) /\ ~isAllowed(command, config)

\* process.exit(code), or the end of main with code 0
Exit(code, out, err, res, called) ==
    /\ pc' = "exited"
    /\ exitCode' = code
    /\ stdout' = out
    /\ stderr' = err
    /\ results' = res
    /\ calls' = called
    /\ UNCHANGED <<argv, file, docker>>

Init ==
    /\ argv \in Argvs
    /\ file \in Files
    /\ docker \in Runtimes
    /\ pc = "start"
    /\ stdout = <<>>
    /\ stderr = <<>>
    /\ exitCode = 0
    /\ results = <<>>
    /\ calls = <<>>

\* case 'check'
MainCheck ==
    /\ pc = "start"
    /\ Action(argv) = <<W_check>>
    /\ LET command == Command(argv)
           lc      == loadConfig(file)
       IN  IF Len(command) = 0
           THEN Exit(1, <<>>, << Line("Usage: enforce.ts check <command>", <<>>) >>,
                     <<>>, <<>>)
           ELSE IF CheckVerdict(command, lc.config)
           THEN Exit(1, << Line("WOULD_BLOCK: ${command}", <<command>>) >>, lc.stderr,
                     <<>>, <<"loadConfig", "shouldIntercept", "isAllowed">>)
           ELSE Exit(0, << Line("ALLOWED: ${command}", <<command>>) >>, lc.stderr,
                     <<>>,
                     IF shouldIntercept(command, lc.config)
                     THEN <<"loadConfig", "shouldIntercept", "isAllowed">>
                     ELSE <<"loadConfig", "shouldIntercept">>)

\* case 'validate'
MainValidate ==
    /\ pc = "start"
    /\ Action(argv) = <<W_validate>>
    /\ LET lc   == loadConfig(file)
           name == lc.config.containerName
       IN  IF NoName(name)
           THEN Exit(1, << Line("ERROR: No container configured", <<>>) >>, lc.stderr,
                     <<>>, <<"loadConfig">>)
           ELSE IF isContainerRunning(name[1], docker)
           THEN Exit(0, << Line("OK: Container '${containerName}' is running",
                                <<name[1]>>) >>,
                     lc.stderr, <<>>, <<"loadConfig", "isContainerRunning">>)
           ELSE Exit(1, << Line("ERROR: Container '${containerName}' is not running",
                                <<name[1]>>) >>,
                     lc.stderr, <<>>, <<"loadConfig", "isContainerRunning">>)

\* case 'transform'
MainTransform ==
    /\ pc = "start"
    /\ Action(argv) = <<W_transform>>
    /\ LET command == Command(argv)
           lc      == loadConfig(file)
           name    == lc.config.containerName
       IN  IF Len(command) = 0
           THEN Exit(1, <<>>, << Line("Usage: enforce.ts transform <command>", <<>>) >>,
                     <<>>, <<>>)
           ELSE IF ~NoName(name)
           THEN Exit(0, << Line("docker exec ${containerName} ${command}",
                                <<name[1], command>>) >>,
                     lc.stderr, <<>>, <<"loadConfig">>)
           ELSE Exit(1, <<>>,
                     lc.stderr \o << Line("ERROR: No container configured", <<>>) >>,
                     <<>>, <<"loadConfig">>)

\* case 'enforce' and default
MainEnforce ==
    /\ pc = "start"
    /\ Action(argv) \notin {<<W_check>>, <<W_validate>>, <<W_transform>>}
    /\ LET cmd == EnforceCmd(argv)
           o   == enforce(cmd, file, docker)
       IN  IF Len(cmd) = 0
           THEN Exit(1, <<>>, << Line("Usage: enforce.ts [enforce] <command>", <<>>) >>,
                     <<>>, <<>>)
           ELSE Exit(ExitCodeFor(o.result),
                     <<>>, o.stderr, <<o.result>>, o.calls)

Next == MainCheck \/ MainValidate \/ MainTransform \/ MainEnforce

Spec == Init /\ [][Next]_vars

(***************************************************************************)
(* Properties.  They are stated of a run that has exited.                  *)
(***************************************************************************)
Exited == pc = "exited"

\* main took case 'enforce' or default
OnEnforcePath == Action(argv) \notin {<<W_check>>, <<W_validate>>, <<W_transform>>}

\* the command main hands to enforce
Cmd == EnforceCmd(argv)

\* main called enforce(cmd) and it returned
Evaluated == Exited /\ OnEnforcePath /\ Len(Cmd) > 0

\* the configuration in force
Cfg == loadConfig(file).config

\* c equals an entry of the list, or begins with an entry and then a space
AllowListed(c, list) ==
    \E i \in 1..Len(list) :
        \/ c = list[i]
        \/ /\ Len(c) > Len(list[i])
           /\ \A k \in 1..Len(list[i]) : c[k] = list[i][k]
           /\ c[Len(list[i]) + 1] = " "

\* an intercepted command that the allow-list does not exempt
Violation ==
    /\ shouldIntercept(Cmd, Cfg)
    /\ ~AllowListed(Cmd, Cfg.allowedHostCommands[1])

\* a container name is configured
Named == Len(Cfg.containerName) = 1 /\ Cfg.containerName[1] # <<>>

\* the runtime answers and lists the configured container as running
Running ==
    /\ Named
    /\ docker.ok
    /\ \E i \in 1..Len(docker.names) : docker.names[i] = Cfg.containerName[1]

\* C1: under mode block, a command that matches the pattern of an enabled
\* tool and is not allow-listed makes enforce return action block, and the
\* process exits with code 1.
C1_BlockModeBlocks ==
    (Evaluated /\ Cfg.enforcement = <<"block">> /\ Violation)
        => /\ Len(results) = 1
           /\ results[1].action = "block"
           /\ exitCode = 1

C1_Witness ==
    /\ Evaluated
    /\ Action(argv) = <<W_enforce>>
    /\ file.kind = "ok"
    /\ file.json.enforcement = <<"block">>
    /\ Len(Cfg.allowedHostCommands[1]) > 0
    /\ Violation
    /\ results = << [action |-> "block", message |-> "Docker-first policy violation"] >>
    /\ exitCode = 1

\* C2: an allow-listed command (equal to an entry, or an entry followed by
\* a space and more) makes enforce return action allow, whatever the mode,
\* the container name and the state of the runtime.
C2_AllowListedAllowed ==
    (Evaluated /\ AllowListed(Cmd, Cfg.allowedHostCommands[1]))
        => /\ results = <<[action |-> "allow"]>>
           /\ exitCode = 0

C2_Witness ==
    /\ Evaluated
    /\ Cfg.enforcement = <<"block">>
    /\ shouldIntercept(Cmd, Cfg)
    /\ AllowListed(Cmd, Cfg.allowedHostCommands[1])
    /\ \A i \in 1..Len(Cfg.allowedHostCommands[1]) : Cmd # Cfg.allowedHostCommands[1][i]
    /\ results = <<[action |-> "allow"]>>

\* C3: when the config file sets enforcement to disabled, enforce returns
\* action allow for every command, intercepted or not, whatever the
\* allow-list and the container name.
C3_DisabledAllows ==
    (Evaluated /\ file.kind = "ok" /\ file.json.enforcement = <<"disabled">>)
        => /\ results = <<[action |-> "allow"]>>
           /\ exitCode = 0
           /\ stderr = <<>>

C3_Witness ==
    /\ Evaluated
    /\ file.kind = "ok"
    /\ file.json.enforcement = <<"disabled">>
    /\ Violation
    /\ results = <<[action |-> "allow"]>>

\* C4: under mode warn, an intercepted command that is not allow-listed
\* makes enforce return action warn and the process ends with exit code 0,
\* with or without a container name.
C4_WarnModeWarns ==
    (Evaluated /\ Cfg.enforcement = <<"warn">> /\ Violation)
        => /\ results = <<[action |-> "warn"]>>
           /\ exitCode = 0

C4_Witness ==
    /\ Evaluated
    /\ Cfg.enforcement = <<"warn">>
    /\ Violation
    /\ ~Named
    /\ results = <<[action |-> "warn"]>>
    /\ exitCode = 0

\* C5: under mode transform, for an intercepted command that is not
\* allow-listed, when the configured container is running enforce returns
\* action transform and the transformed command is "docker exec ", the
\* container name, a space and the command as it was given.
C5_TransformRewrites ==
    (Evaluated /\ Cfg.enforcement = <<"transform">> /\ Violation /\ Running)
        => results =
             << [ action |-> "transform",
                  transformedCommand |->
                      <<"d","o","c","k","e","r"," ","e","x","e","c"," ">>
                      \o Cfg.containerName[1] \o <<" ">> \o Cmd ] >>

C5_Witness ==
    /\ Evaluated
    /\ Cfg.enforcement = <<"transform">>
    /\ Violation
    /\ Running
    /\ Len(results) = 1
    /\ results[1].action = "transform"
    /\ exitCode = 0

\* C6: under mode transform, for an intercepted command that is not
\* allow-listed, when no container name is configured (none, or the empty
\* string) enforce returns action block with the message
\* "No container configured", never transform, and does not ask the runtime.
C6_TransformNeedsName ==
    (Evaluated /\ Cfg.enforcement = <<"transform">> /\ Violation /\ ~Named)
        => /\ results = << [action |-> "block", message |-> "No container configured"] >>
           /\ exitCode = 1
           /\ ~Includes(calls, "isContainerRunning")

C6_Witness ==
    /\ Evaluated
    /\ Cfg.enforcement = <<"transform">>
    /\ Violation
    /\ Cfg.containerName = << <<>> >>
    /\ docker.ok
    /\ results = << [action |-> "block", message |-> "No container configured"] >>

\* C7: under mode transform with a container name configured, for an
\* intercepted command that is not allow-listed, if the name is not exactly
\* one of the names the runtime lists as running, or the call to the
\* runtime fails, enforce returns action block with the message
\* "Container not running": the failure ends in that decision and exit
\* code 1, not in an error.
C7_TransformNeedsRunning ==
    (Evaluated /\ Cfg.enforcement = <<"transform">> /\ Violation /\ Named /\ ~Running)
        => /\ results = << [action |-> "block", message |-> "Container not running"] >>
           /\ exitCode = 1

C7_Witness ==
    /\ Evaluated
    /\ Cfg.enforcement = <<"transform">>
    /\ Violation
    /\ Named
    /\ docker.ok
    /\ Len(docker.names) > 0
    /\ ~Running
    /\ results = << [action |-> "block", message |-> "Container not running"] >>

\* the runtime call fails and the run still ends in the block decision
C7_WitnessFailure ==
    /\ Evaluated
    /\ Cfg.enforcement = <<"transform">>
    /\ Violation
    /\ Named
    /\ ~docker.ok
    /\ results = << [action |-> "block", message |-> "Container not running"] >>

\* C8: a command that matches no pattern of an enabled tool makes enforce
\* return action allow under every mode and allow-list, and no line of the
\* violation message, of the warning or of the transform errors is
\* written: standard error holds at most loadConfig's notice that the
\* config file could not be parsed.
C8_NotInterceptedAllowed ==
    (Evaluated /\ ~shouldIntercept(Cmd, Cfg))
        => /\ results = <<[action |-> "allow"]>>
           /\ exitCode = 0
           /\ \A i \in 1..Len(stderr) : stderr[i] = ParseWarning

C8_Witness ==
    /\ Evaluated
    /\ ~shouldIntercept(Cmd, Cfg)
    /\ Cmd = <<"g","i","t"," ","s","t","a","t","u","s">>
    /\ Cfg.enforcement = <<"block">>
    /\ results = <<[action |-> "allow"]>>
    /\ stderr = <<>>

\* C9: check, given a command, prints "WOULD_BLOCK: <command>" and exits 1
\* exactly when the command is intercepted and not allow-listed, and
\* otherwise prints "ALLOWED: <command>" and exits 0.  What it prints and
\* its exit code are fixed by the command, the allow-list and the intercept
\* flags alone: they are the same under every mode, container name and
\* state of the runtime.
C9_CheckIgnoresMode ==
    (Exited /\ Action(argv) = <<W_check>> /\ Len(Command(argv)) > 0)
        => LET c        == Command(argv)
               patterns == [DEFAULT_CONFIG EXCEPT
                               !.interceptPatterns = Cfg.interceptPatterns]
               would    == /\ shouldIntercept(c, patterns)
                           /\ ~AllowListed(c, Cfg.allowedHostCommands[1])
           IN  IF would
               THEN /\ stdout = << Line("WOULD_BLOCK: ${command}", <<c>>) >>
                    /\ exitCode = 1
               ELSE /\ stdout = << Line("ALLOWED: ${command}", <<c>>) >>
                    /\ exitCode = 0

C9_Witness ==
    /\ Exited
    /\ Action(argv) = <<W_check>>
    /\ file.kind = "ok"
    /\ file.json.enforcement = <<"disabled">>
    /\ file.json.containerName = <<W_app>>
    /\ ~docker.ok
    /\ stdout = << Line("WOULD_BLOCK: ${command}", <<Command(argv)>>) >>
    /\ exitCode = 1

\* C10 as stated: on the enforce and default path, for every argument
\* list, a nonzero exit implies that enforce returned action block.
C10_Original ==
    (Exited /\ OnEnforcePath /\ exitCode # 0)
        => /\ Len(results) = 1
           /\ results[1].action = "block"

\* C10, amended: on the enforce and default path a nonzero exit implies
\* that enforce returned action block, or that no command was given, in
\* which case the usage line is printed and enforce is not called.
C10_NonzeroExitIsBlockOrUsage ==
    (Exited /\ OnEnforcePath /\ exitCode # 0)
        => \/ /\ Len(results) = 1
              /\ results[1].action = "block"
           \/ /\ Len(Cmd) = 0
              /\ results = <<>>
              /\ stderr = << Line("Usage: enforce.ts [enforce] <command>", <<>>) >>

C10_Witness ==
    /\ Exited
    /\ OnEnforcePath
    /\ Action(argv) # <<W_enforce>>
    /\ Len(argv) > 1
    /\ exitCode = 1
    /\ Len(results) = 1
    /\ results[1].action = "block"

\* the mode in force is none of block, warn, transform, disabled
UnknownMode ==
    Cfg.enforcement \notin {<<"block">>, <<"warn">>, <<"transform">>, <<"disabled">>}

\* C11: when the configured mode is none of block, warn, transform and
\* disabled, an intercepted command that is not allow-listed is allowed and
\* a warning about the unrecognized mode is written to standard error.
C11_UnknownModeWarns ==
    (Evaluated /\ file.kind = "ok" /\ UnknownMode /\ Violation)
        => /\ results = <<[action |-> "allow"]>>
           /\ exitCode = 0
           /\ Len(stderr) > 0

\* the built-in defaults as documented: block, nothing allow-listed, the
\* seven tools intercepted, no container name
BuiltInDefaults ==
    [ containerName       |-> <<>>,
      enforcement         |-> <<"block">>,
      allowedHostCommands |-> << <<>> >>,
      interceptPatterns   |->
          << << [tool |-> "npm", enabled |-> TRUE], [tool |-> "npx", enabled |-> TRUE],
                [tool |-> "yarn", enabled |-> TRUE], [tool |-> "pnpm", enabled |-> TRUE],
                [tool |-> "node", enabled |-> TRUE], [tool |-> "tsx", enabled |-> TRUE],
                [tool |-> "bun", enabled |-> TRUE] >> >> ]

SevenTools == {"npm", "npx", "yarn", "pnpm", "node", "tsx", "bun"}

\* c matches the pattern of tool t
MatchesTool(t, c) == RegexTest(INTERCEPT_PATTERNS[t], c)

\* C12: loading the configuration never fails the run.  With the config
\* file missing, or present but unreadable or unparseable, the built-in
\* defaults are in force and the run ends in the decision made under them:
\* block, exit code 1, for a command matching one of the seven tools, with
\* no suggested command since no container is known, and allow otherwise.
\* The parse warning is the first line of standard error exactly when the
\* file is present but malformed.
C12_LoadFallsBackToDefaults ==
    (Evaluated /\ file.kind \in {"missing", "malformed"})
        => LET blocked == \E t \in SevenTools : MatchesTool(t, Cmd)
               warned  == IF file.kind = "malformed" THEN <<ParseWarning>> ELSE <<>>
           IN  /\ Cfg = BuiltInDefaults
               /\ results = IF blocked
                            THEN << [ action |-> "block",
                                      message |-> "Docker-first policy violation" ] >>
                            ELSE << [action |-> "allow"] >>
               /\ exitCode = (IF blocked THEN 1 ELSE 0)
               /\ stderr = warned \o (IF blocked THEN showBlockMessage(Cmd, <<>>) ELSE <<>>)

C12_Witness ==
    /\ Evaluated
    /\ file.kind = "malformed"
    /\ stderr[1] = ParseWarning
    /\ Len(stderr) > 1
    /\ results = << [action |-> "block", message |-> "Docker-first policy violation"] >>
    /\ exitCode = 1

NpmRunLint == <<"n","p","m"," ","r","u","n"," ","l","i","n","t">>

C13_WitnessAllowed ==
    /\ Evaluated
    /\ Cfg.enforcement = <<"block">>
    /\ Cfg.allowedHostCommands = << <<NpmRunLint>> >>
    /\ Cmd = NpmRunLint \o <<" ","-","-","f","i","x">>
    /\ results = <<[action |-> "allow"]>>

\* the file supplies an interceptPatterns object
SuppliesPatterns == file.kind = "ok" /\ Len(file.json.interceptPatterns) = 1

\* what the claim says is intercepted: with a supplied object, a command
\* matching a tool that the object sets to true; without one, a command
\* matching any of the seven tools
ExpectedIntercept(c) ==
    IF SuppliesPatterns
    THEN LET obj == file.json.interceptPatterns[1]
         IN  \E i \in 1..Len(obj) :
                 /\ obj[i].enabled = TRUE
                 /\ obj[i].tool \in SevenTools
                 /\ MatchesTool(obj[i].tool, c)
    ELSE \E t \in SevenTools : MatchesTool(t, c)

\* C14: the merge is shallow, so an interceptPatterns object in the config
\* file replaces the default map as a whole.  A command is intercepted only
\* through a tool the supplied object sets to true; a tool the object
\* leaves out is not intercepted; the seven defaults apply only when the
\* file has no interceptPatterns field.  Seen on commands that are not
\* allow-listed: through check (WOULD_BLOCK, exit 1) and through enforce
\* under mode block (action block).
C14_SuppliedPatternsReplaceDefaults ==
    /\ (Exited /\ Action(argv) = <<W_check>> /\ Len(Command(argv)) > 0
           /\ ~AllowListed(Command(argv), Cfg.allowedHostCommands[1]))
          => (exitCode = 1 <=> ExpectedIntercept(Command(argv)))
    /\ (Evaluated /\ Cfg.enforcement = <<"block">>
           /\ ~AllowListed(Cmd, Cfg.allowedHostCommands[1]))
          => (results[1].action = "block" <=> ExpectedIntercept(Cmd))

\* node is left out of the supplied object, and "node a.js" is let through
C14_Witness ==
    /\ Exited
    /\ Action(argv) = <<W_check>>
    /\ SuppliesPatterns
    /\ file.json.interceptPatterns[1] = << [tool |-> "npm", enabled |-> FALSE] >>
    /\ Command(argv) = <<"n","o","d","e"," ","a",".","j","s">>
    /\ ~AllowListed(Command(argv), Cfg.allowedHostCommands[1])
    /\ exitCode = 0

\* a tool set to true in the supplied object is intercepted
C14_WitnessEnabled ==
    /\ Evaluated
    /\ SuppliesPatterns
    /\ Cfg.enforcement = <<"block">>
    /\ ExpectedIntercept(Cmd)
    /\ results[1].action = "block"

\* the place of a called function in the order the claim gives: config
\* loading, interception check, allow-list check, container-status check,
\* action
Rank(f) ==
    CASE f = "loadConfig"         -> 1
      [] f = "shouldIntercept"    -> 2
      [] f = "isAllowed"          -> 3
      [] f = "isContainerRunning" -> 4
      [] OTHER                    -> 5

\* how many times the evaluation asked the container runtime
Queries == Cardinality({i \in 1..Len(calls) : calls[i] = "isContainerRunning"})

\* C15: one evaluation of enforce loads the config first and then calls
\* its steps in the order interception check, allow-list check,
\* container-status check, action.  The runtime is asked at most once, and
\* only under mode transform for an intercepted command that is not
\* allow-listed with a container name configured.  In every other case the
\* runtime is not asked, and the result and what is printed are those of
\* the same evaluation with the runtime unavailable: they are the same
\* whatever the state of the runtime.
C15_OrderAndSingleQuery ==
    Evaluated
        => /\ Len(calls) >= 1
           /\ calls[1] = "loadConfig"
           /\ \A i, j \in 1..Len(calls) : i < j => Rank(calls[i]) < Rank(calls[j])
           /\ Queries <= 1
           /\ Queries = 1 <=> (Cfg.enforcement = <<"transform">> /\ Violation /\ Named)
           /\ Queries = 0 =>
                LET o == enforce(Cmd, file, [ok |-> FALSE, names |-> <<>>])
                IN  /\ o.result = results[1]
                    /\ o.stderr = stderr

C15_Witness ==
    /\ Evaluated
    /\ calls = <<"loadConfig", "shouldIntercept", "isAllowed", "isContainerRunning">>
    /\ Cfg.enforcement = <<"transform">>
    /\ Violation
    /\ Named
    /\ Queries = 1

\* mode transform without a container name: decided without the runtime
C15_WitnessNoQuery ==
    /\ Evaluated
    /\ Cfg.enforcement = <<"transform">>
    /\ Violation
    /\ ~Named
    /\ docker.ok
    /\ Queries = 0
    /\ calls = <<"loadConfig", "shouldIntercept", "isAllowed">>

====
